---- MODULE Spec2Model ----
(***************************************************************************)
(* FractionalSuite (Django): the point-of-sale checkout pipeline of        *)
(* deals/views.py pos_view and deals/models.py Sale, the NAV arithmetic of *)
(* deals/models.py Deal, and the holding ledger of deals/views.py          *)
(* deal_detail.                                                            *)
(*                                                                         *)
(* Money is an integer number of cents (a Decimal with 2 places).  A       *)
(* Python float is an integer number of 1/FloatScale cents.  A DateField   *)
(* is a day number; a DateTimeField is day * TicksPerDay + tick, so tick 0 *)
(* is midnight.  The database runs in Django's default autocommit mode:    *)
(* no view opens transaction.atomic, so every ORM write is a step of its   *)
(* own that other requests can observe.                                    *)
(***************************************************************************)
EXTENDS Integers, Sequences, FiniteSets, TLC

\* ------------------------------------------------------------------ bounds
MaxQty == 2
MaxSales == 2
MaxTx == 2
MaxVals == 2
MaxHeld == 4
SeedShares == 3
SeedPrice == 2
MaxSubTx == 1
MaxAmount == 60

\* ------------------------------------------------------------- value sets
Variants == {1, 2}
Deals == {1, 2}
Reqs == {1, 2}
SeqReq == CHOOSE r \in Reqs : TRUE
Prices == {10, 35}
Gone == -1
NoEntry == [quantity |-> 0]
NoSale == [id |-> 0]
NoSub == [investor |-> 0]
NoItem == [variant |-> 0]
NoForm == [bound |-> FALSE]
NoAccess == [tested |-> FALSE, granted |-> FALSE]
NoDelete == [asked |-> FALSE]
NoToggle == [asked |-> FALSE]

Assets == {1, 2}
None == 0
Roles == {"OWNER", "MANAGER", "CASHIER"}
\* Profile.role and Profile.assigned_asset of the users
Profiles == [role : Roles, assigned_asset : Assets \cup {None}]
\* Deal.asset: deal d is the offering of asset d
DealAsset == [d \in Deals |-> d]

\* the users: an owner, a manager and a cashier of each asset, and a manager
\* assigned to no asset
Users == 1..6
UserProfile ==
  [u \in Users |->
     CASE u = 1 -> [role |-> "OWNER", assigned_asset |-> None]
       [] u = 2 -> [role |-> "MANAGER", assigned_asset |-> 1]
       [] u = 3 -> [role |-> "MANAGER", assigned_asset |-> 2]
       [] u = 4 -> [role |-> "MANAGER", assigned_asset |-> None]
       [] u = 5 -> [role |-> "CASHIER", assigned_asset |-> 1]
       [] u = 6 -> [role |-> "CASHIER", assigned_asset |-> 2]]
\* a user_pk that no User row has
NoSuchUser == 0
UserPks == Users \cup {NoSuchUser}

Items == {1, 2}
Categories == {1, 2}
\* Variant.item, Item.category and Category.asset: variant v is the one
\* variant of item v, item i the one item of category i, and category c a
\* category of asset c
VariantItem == [v \in Variants |-> v]
ItemCategory == [i \in Items |-> i]
CategoryAsset == [c \in Categories |-> c]

Investors == {1, 2}
Targets == {5, 10}
ShareCounts == {0, 4}
SmallOffers == {1, 4}
Days == {1, 2}
ValTotals == {1, 7}
Amounts == {-3, 4}
SubShares == {1, 2}
TransactionTypes == {"INCOME", "EXPENSE", "DISTRIBUTION"}

\* 1/FloatScale cent is the unit of a float in this model
FloatScale == 1000

\* ticks of a day: a datetime is day * TicksPerDay + tick
TicksPerDay == 2

\* midnight of day 1, later that day, midnight of day 2
DateTimes == {TicksPerDay, TicksPerDay + 1, 2 * TicksPerDay}

\* the value that stands for decimal.DivisionByZero / ZeroDivisionError raised
ZeroDivisionError == -999999

VARIABLES
  variantPrice,   \* Variant.price per Variant pk, or Gone once the row is deleted
  cart,           \* request.session['cart']: Variant pk -> entry, or NoEntry
  sales,          \* the Sale table
  saleItems,      \* the SaleItem table
  transactions,   \* the Transaction table, in insertion (pk) order
  now,            \* timezone.now(): every ORM write takes one tick
  pc,             \* where each request is in pos_view
  reqCart,        \* the request's local variable cart (views.py:608)
  reqSale,        \* the request's local variable sale (views.py:638)
  reqTodo,        \* cart lines the loop of views.py:644 has not reached yet
  aborted,        \* history: ids of the Sales whose checkout raised Http404
  cartGen,        \* history: how many times a checkout has cleared the cart
  reqGen,         \* history: cartGen when the request read the cart
  removed,        \* history: what the last request took out of the cart, when
                  \* that request was a remove_from_cart (views.py:630)
  dealTarget,     \* Deal.target_raise_amount per Deal pk
  dealShares,     \* Deal.total_shares_offered per Deal pk
  valuations,     \* the Valuation table
  holdings,       \* the Holding table
  subPc,          \* where each subscription request is in deal_detail
  subReq,         \* its local variables: investor, deal, new_shares,
                  \* new_cost_basis and the Holding object it got
  subShares,      \* history: shares subscribed so far per (investor, deal)
  subAt,          \* history: the price_per_share values those subscriptions saw
  salesForm,      \* the SalesEntryForm last submitted: its amount and what
                  \* clean_amount made of it
  posAccess,      \* the profile and the deal of the POS requests being made,
                  \* and whether the test of views.py:590-597 lets them in
  items,          \* the pks of the Item table
  categories,     \* the pks of the Category table
  deals,          \* the pks of the Deal table
  dealDelete,     \* history: the Deal the last delete request named
  userActive,     \* User.is_active per User pk
  toggleReq       \* history: who posted the last manage_users_view request,
                  \* and the user_pk it named

posVars == <<variantPrice, cart, sales, saleItems, transactions, now, pc,
             reqCart, reqSale, reqTodo, aborted, cartGen, reqGen, removed>>

dealVars == <<dealTarget, dealShares, valuations, holdings, subPc, subReq,
              subShares, subAt>>

siteVars == <<salesForm, posAccess, items, categories, deals,
              dealDelete, userActive, toggleReq>>

vars == <<posVars, dealVars, siteVars>>

\* ------------------------------------------------------------ arithmetic
Abs(x) == IF x < 0 THEN -x ELSE x

Sign(x) == IF x < 0 THEN -1 ELSE 1

\* Decimal.quantize under the default context: ROUND_HALF_EVEN, sign kept.
\* n / d for d > 0, to the nearest integer, ties to the even neighbour.
RoundHalfEven(n, d) ==
  LET q == Abs(n) \div d
      r == Abs(n) % d
      up == (2 * r > d) \/ (2 * r = d /\ q % 2 = 1)
  IN Sign(n) * (IF up THEN q + 1 ELSE q)

\* Decimal / int, then quantize(Decimal('0.00')) (models.py:142-144, :153-154)
DivideAndQuantize(n, d) ==
  IF d = 0 THEN ZeroDivisionError ELSE RoundHalfEven(n, d)

\* float(Decimal): the nearest double to c cents.  The sign of the
\* representation error is the real one for the prices of this model:
\* float(Decimal('0.10')) is above 0.10, float(Decimal('0.35')) below 0.35.
FloatErr(c) == IF c = 10 THEN 1 ELSE IF c = 35 THEN -1 ELSE 0

FloatOf(c) == c * FloatScale + FloatErr(c)

\* DecimalField.get_db_prep_save of a float: create_decimal_from_float, then
\* quantize to decimal_places = 2 (half-even).
DecimalOfFloat(f) == RoundHalfEven(f, FloatScale)

\* ------------------------------------------------------------- POS: cart
EmptyCart == [v \in Variants |-> NoEntry]

CartKeys(c) == {v \in Variants : c[v] # NoEntry}

Quiet == \A r \in Reqs : pc[r] = "idle"

InFlight == Cardinality({r \in Reqs : pc[r] # "idle"})

\* AddToCart that counts a variant already in the cart twice
AddToCart_ByTwo(v) ==
  /\ variantPrice[v] # Gone
  /\ cart[v].quantity < MaxQty
  /\ cart' = [cart EXCEPT ![v] =
       IF cart[v] # NoEntry
       THEN [cart[v] EXCEPT !.quantity = @ + 2]
       ELSE [quantity |-> 1, price |-> FloatOf(variantPrice[v]),
             snap |-> variantPrice[v]]]
  /\ removed' = NoItem
  /\ UNCHANGED <<dealVars, siteVars>>
  /\ UNCHANGED <<variantPrice, sales, saleItems, transactions, now, pc,
                 reqCart, reqSale, reqTodo, aborted, cartGen, reqGen>>

\* views.py:612-625, with the session read of :608 and the write of :658
AddToCart(v) ==
  /\ variantPrice[v] # Gone
  /\ cart[v].quantity < MaxQty
  /\ cart' = [cart EXCEPT ![v] =
       IF cart[v] # NoEntry
       THEN [cart[v] EXCEPT !.quantity = @ + 1]
       ELSE [quantity |-> 1, price |-> FloatOf(variantPrice[v]),
             snap |-> variantPrice[v]]]
  /\ removed' = NoItem
  /\ UNCHANGED <<dealVars, siteVars>>
  /\ UNCHANGED <<variantPrice, sales, saleItems, transactions, now, pc,
                 reqCart, reqSale, reqTodo, aborted, cartGen, reqGen>>

\* RemoveFromCart that takes one unit out of the entry
RemoveFromCart_OneUnit(v) ==
  /\ cart' = [cart EXCEPT ![v] =
       IF cart[v].quantity > 1 THEN [cart[v] EXCEPT !.quantity = @ - 1]
       ELSE NoEntry]
  /\ removed' = [variant |-> v, quantity |-> cart[v].quantity]
  /\ UNCHANGED <<dealVars, siteVars>>
  /\ UNCHANGED <<variantPrice, sales, saleItems, transactions, now, pc,
                 reqCart, reqSale, reqTodo, aborted, cartGen, reqGen>>

\* views.py:627-631, with the session read of :608 and the write of :658: the
\* entry of that key, when there is one, is popped
RemoveFromCart(v) ==
  /\ cart' = [cart EXCEPT ![v] = NoEntry]
  /\ removed' = [variant |-> v, quantity |-> cart[v].quantity]
  /\ UNCHANGED <<dealVars, siteVars>>
  /\ UNCHANGED <<variantPrice, sales, saleItems, transactions, now, pc,
                 reqCart, reqSale, reqTodo, aborted, cartGen, reqGen>>

\* ---------------------------------------------------------- POS: catalog
\* manage_item_variants_view: the Variant formset saves a new price
EditVariantPrice(v, p) ==
  /\ variantPrice[v] # Gone
  /\ variantPrice[v] # p
  /\ variantPrice' = [variantPrice EXCEPT ![v] = p]
  /\ removed' = NoItem
  /\ UNCHANGED <<dealVars, siteVars>>
  /\ UNCHANGED <<cart, sales, saleItems, transactions, now, pc,
                 reqCart, reqSale, reqTodo, aborted, cartGen, reqGen>>

\* manage_item_variants_view: the Variant formset deletes the row (can_delete);
\* SaleItem.variant is PROTECT, so a Variant a SaleItem references stays
DeleteVariant(v) ==
  /\ variantPrice[v] # Gone
  /\ \A i \in saleItems : i.variant # v
  /\ variantPrice' = [variantPrice EXCEPT ![v] = Gone]
  /\ removed' = NoItem
  /\ UNCHANGED <<dealVars, siteVars>>
  /\ UNCHANGED <<cart, sales, saleItems, transactions, now, pc,
                 reqCart, reqSale, reqTodo, aborted, cartGen, reqGen>>

VariantsOf(i) == {v \in Variants : VariantItem[v] = i /\ variantPrice[v] # Gone}

\* DeleteItem that takes the Item's Variants with it whoever references them
DeleteItem_NoProtect(i) ==
  /\ i \in items
  /\ items' = items \ {i}
  /\ variantPrice' = [v \in Variants |->
       IF v \in VariantsOf(i) THEN Gone ELSE variantPrice[v]]
  /\ removed' = NoItem
  /\ UNCHANGED <<cart, sales, saleItems, transactions, now, pc,
                 reqCart, reqSale, reqTodo, aborted, cartGen, reqGen>>
  /\ UNCHANGED <<dealVars, salesForm, posAccess, categories, deals,
                 dealDelete, userActive, toggleReq>>

\* admin.py:52-57, the delete of an Item: Variant.item is CASCADE
\* (models.py:78) and SaleItem.variant PROTECT (models.py:285), so the
\* delete is refused while a SaleItem references one of the Item's Variants
DeleteItem(i) ==
  /\ i \in items
  /\ \A v \in VariantsOf(i) : \A x \in saleItems : x.variant # v
  /\ items' = items \ {i}
  /\ variantPrice' = [v \in Variants |->
       IF v \in VariantsOf(i) THEN Gone ELSE variantPrice[v]]
  /\ removed' = NoItem
  /\ UNCHANGED <<cart, sales, saleItems, transactions, now, pc,
                 reqCart, reqSale, reqTodo, aborted, cartGen, reqGen>>
  /\ UNCHANGED <<dealVars, salesForm, posAccess, categories, deals,
                 dealDelete, userActive, toggleReq>>

\* admin.py:39-46, the delete box of a Category on the Asset page:
\* Item.category is PROTECT (models.py:64), so a Category with an Item stays
DeleteCategory(c) ==
  /\ c \in categories
  /\ \A i \in items : ItemCategory[i] # c
  /\ categories' = categories \ {c}
  /\ UNCHANGED <<posVars, dealVars, salesForm, posAccess, items, deals,
                 dealDelete, userActive, toggleReq>>

\* --------------------------------------------------------- POS: checkout
\* views.py:608 and :633-634: a checkout POST for deal d, from a user the
\* permission test of :590-597 lets through, reads the session cart
CheckoutBegin(r, d) ==
  /\ pc[r] = "idle"
  /\ Cardinality(sales) + InFlight < MaxSales
  /\ pc' = [pc EXCEPT ![r] = "checkout"]
  /\ reqCart' = [reqCart EXCEPT ![r] = cart]
  /\ reqSale' = [reqSale EXCEPT ![r] = [id |-> 0, deal |-> d]]
  /\ reqTodo' = [reqTodo EXCEPT ![r] = {}]
  /\ reqGen' = [reqGen EXCEPT ![r] = cartGen]
  /\ removed' = NoItem
  /\ UNCHANGED <<dealVars, siteVars>>
  /\ UNCHANGED <<variantPrice, cart, sales, saleItems, transactions, now,
                 aborted, cartGen>>

\* views.py:635-636: an empty cart is refused with messages.error
CheckoutReject(r) ==
  /\ pc[r] = "checkout"
  /\ CartKeys(reqCart[r]) = {}
  /\ pc' = [pc EXCEPT ![r] = "rejected"]
  /\ reqSale' = [reqSale EXCEPT ![r] = NoSale]
  /\ UNCHANGED <<removed, dealVars, siteVars>>
  /\ UNCHANGED <<variantPrice, cart, sales, saleItems, transactions, now,
                 reqCart, reqTodo, aborted, cartGen, reqGen>>

\* Respond that leaves an empty cart in the session
Respond_ClearsCart(r) ==
  /\ pc[r] \in {"rejected", "notfound"}
  /\ cart' = EmptyCart
  /\ pc' = [pc EXCEPT ![r] = "idle"]
  /\ reqCart' = [reqCart EXCEPT ![r] = EmptyCart]
  /\ reqGen' = [reqGen EXCEPT ![r] = 0]
  /\ UNCHANGED <<removed, dealVars, siteVars>>
  /\ UNCHANGED <<variantPrice, sales, saleItems, transactions, now,
                 reqSale, reqTodo, aborted, cartGen>>

\* views.py:658-662: the refused request writes its cart back to the session
\* and redirects; the request that raised Http404 never reaches a session
\* write, and its response ends it
Respond(r) ==
  /\ pc[r] \in {"rejected", "notfound"}
  /\ cart' = IF pc[r] = "rejected" THEN reqCart[r] ELSE cart
  /\ pc' = [pc EXCEPT ![r] = "idle"]
  /\ reqCart' = [reqCart EXCEPT ![r] = EmptyCart]
  /\ reqGen' = [reqGen EXCEPT ![r] = 0]
  /\ UNCHANGED <<removed, dealVars, siteVars>>
  /\ UNCHANGED <<variantPrice, sales, saleItems, transactions, now,
                 reqSale, reqTodo, aborted, cartGen>>

NewSaleId == Cardinality(sales) + 1

\* CreateSale without the empty-cart test of views.py:635
CreateSale_NoEmptyCheck(r) ==
  /\ pc[r] = "checkout"
  /\ LET s == [id |-> NewSaleId, deal |-> reqSale[r].deal,
               total_amount |-> 0, created_at |-> now, gen |-> reqGen[r]]
     IN /\ sales' = sales \cup {s}
        /\ reqSale' = [reqSale EXCEPT ![r] = s]
  /\ reqTodo' = [reqTodo EXCEPT ![r] = CartKeys(reqCart[r])]
  /\ pc' = [pc EXCEPT ![r] =
       IF CartKeys(reqCart[r]) = {} THEN "finalize" ELSE "items"]
  /\ now' = now + 1
  /\ UNCHANGED <<removed, dealVars, siteVars>>
  /\ UNCHANGED <<variantPrice, cart, saleItems, transactions,
                 reqCart, aborted, cartGen, reqGen>>

\* views.py:638-642: Sale.objects.create; total_amount and created_at take
\* their defaults (models.py:248-249)
CreateSale(r) ==
  /\ pc[r] = "checkout"
  /\ CartKeys(reqCart[r]) # {}
  /\ LET s == [id |-> NewSaleId, deal |-> reqSale[r].deal,
               total_amount |-> 0, created_at |-> now, gen |-> reqGen[r]]
     IN /\ sales' = sales \cup {s}
        /\ reqSale' = [reqSale EXCEPT ![r] = s]
  /\ reqTodo' = [reqTodo EXCEPT ![r] = CartKeys(reqCart[r])]
  /\ pc' = [pc EXCEPT ![r] = "items"]
  /\ now' = now + 1
  /\ UNCHANGED <<removed, dealVars, siteVars>>
  /\ UNCHANGED <<variantPrice, cart, saleItems, transactions,
                 reqCart, aborted, cartGen, reqGen>>

\* CreateSaleItem with price_at_sale re-read from the Variant at checkout
CreateSaleItem_CurrentPrice(r, v) ==
  /\ pc[r] = "items"
  /\ v \in reqTodo[r]
  /\ IF variantPrice[v] = Gone
     THEN /\ pc' = [pc EXCEPT ![r] = "notfound"]
          /\ aborted' = aborted \cup {reqSale[r].id}
          /\ reqSale' = [reqSale EXCEPT ![r] = NoSale]
          /\ reqTodo' = [reqTodo EXCEPT ![r] = {}]
          /\ UNCHANGED <<saleItems, now, reqCart>>
     ELSE /\ saleItems' = saleItems \cup
               {[sale |-> reqSale[r].id, variant |-> v,
                 quantity |-> reqCart[r][v].quantity,
                 price_at_sale |-> variantPrice[v],
                 snap |-> reqCart[r][v].snap]}
          /\ reqTodo' = [reqTodo EXCEPT ![r] = @ \ {v}]
          /\ pc' = [pc EXCEPT ![r] =
               IF reqTodo[r] = {v} THEN "finalize" ELSE "items"]
          /\ now' = now + 1
          /\ UNCHANGED <<aborted, reqCart, reqSale>>
  /\ UNCHANGED <<removed, dealVars, siteVars>>
  /\ UNCHANGED <<variantPrice, cart, sales, transactions, cartGen, reqGen>>

\* views.py:644-650, one turn of the loop: get_object_or_404 raises Http404
\* when the Variant row is gone, else SaleItem.objects.create.  The order of
\* cart.items() is the insertion order of the session dict, which the cart
\* of this model does not keep: every order is taken.
CreateSaleItem(r, v) ==
  /\ pc[r] = "items"
  /\ v \in reqTodo[r]
  /\ IF variantPrice[v] = Gone
     THEN /\ pc' = [pc EXCEPT ![r] = "notfound"]
          /\ aborted' = aborted \cup {reqSale[r].id}
          /\ reqSale' = [reqSale EXCEPT ![r] = NoSale]
          /\ reqTodo' = [reqTodo EXCEPT ![r] = {}]
          /\ UNCHANGED <<saleItems, now, reqCart>>
     ELSE /\ saleItems' = saleItems \cup
               {[sale |-> reqSale[r].id, variant |-> v,
                 quantity |-> reqCart[r][v].quantity,
                 price_at_sale |-> DecimalOfFloat(reqCart[r][v].price),
                 snap |-> reqCart[r][v].snap]}
          /\ reqTodo' = [reqTodo EXCEPT ![r] = @ \ {v}]
          /\ pc' = [pc EXCEPT ![r] =
               IF reqTodo[r] = {v} THEN "finalize" ELSE "items"]
          /\ now' = now + 1
          /\ UNCHANGED <<aborted, reqCart, reqSale>>
  /\ UNCHANGED <<removed, dealVars, siteVars>>
  /\ UNCHANGED <<variantPrice, cart, sales, transactions, cartGen, reqGen>>

\* models.py:289-291
total_price(i) == i.quantity * i.price_at_sale

ItemsOf(id) == {i \in saleItems : i.sale = id}

\* models.py:260-262: total = 0; for item in self.items.all(): total += ...
RECURSIVE SumTotalPrice(_)
SumTotalPrice(S) ==
  IF S = {} THEN 0
  ELSE LET i == CHOOSE x \in S : TRUE
       IN total_price(i) + SumTotalPrice(S \ {i})

\* models.py:259-265: the total of self.items.all(), then self.save()
FinalizeTotal(r) ==
  /\ pc[r] = "finalize"
  /\ LET s == [reqSale[r] EXCEPT
                 !.total_amount = SumTotalPrice(ItemsOf(reqSale[r].id))]
     IN /\ reqSale' = [reqSale EXCEPT ![r] = s]
        /\ sales' = {IF x.id = s.id THEN s ELSE x : x \in sales}
  /\ pc' = [pc EXCEPT ![r] = "ledger"]
  /\ now' = now + 1
  /\ UNCHANGED <<removed, dealVars, siteVars>>
  /\ UNCHANGED <<variantPrice, cart, saleItems, transactions,
                 reqCart, reqTodo, aborted, cartGen, reqGen>>

\* models.py:268-274: Transaction.objects.create; the description names the
\* Sale's pk (field sale)
CreateTransaction(r) ==
  /\ pc[r] = "ledger"
  /\ transactions' = Append(transactions,
       [deal |-> reqSale[r].deal, transaction_type |-> "INCOME",
        amount |-> reqSale[r].total_amount,
        transaction_date |-> reqSale[r].created_at,
        sale |-> reqSale[r].id])
  /\ pc' = [pc EXCEPT ![r] = "clear"]
  /\ now' = now + 1
  /\ UNCHANGED <<removed, dealVars, siteVars>>
  /\ UNCHANGED <<variantPrice, cart, sales, saleItems,
                 reqCart, reqSale, reqTodo, aborted, cartGen, reqGen>>

\* views.py:653-656: the session cart is replaced by {} and the request
\* redirects to the receipt
ClearCart(r) ==
  /\ pc[r] = "clear"
  /\ cart' = EmptyCart
  /\ cartGen' = cartGen + 1
  /\ pc' = [pc EXCEPT ![r] = "idle"]
  /\ reqCart' = [reqCart EXCEPT ![r] = EmptyCart]
  /\ reqSale' = [reqSale EXCEPT ![r] = NoSale]
  /\ reqGen' = [reqGen EXCEPT ![r] = 0]
  /\ UNCHANGED <<removed, dealVars, siteVars>>
  /\ UNCHANGED <<variantPrice, sales, saleItems, transactions, now,
                 reqTodo, aborted>>

\* ------------------------------------------------------------ Deal: NAV
\* models.py:147-155
price_per_share(d) ==
  IF dealShares[d] # 0 /\ dealTarget[d] # 0
  THEN DivideAndQuantize(dealTarget[d], dealShares[d])
  ELSE 0

\* a date used where a datetime is expected: midnight of that day
\* (transaction_date__gt = valuation_date, models.py:124)
Midnight(day) == day * TicksPerDay

ValuationsOf(d) == {v \in valuations : v.deal = d}

\* LatestValuation without Meta.ordering: first() then takes the lowest pk
LatestValuation_ByPk(d) ==
  CHOOSE v \in ValuationsOf(d) : \A w \in ValuationsOf(d) : v.id <= w.id

\* models.py:113: self.valuations.first() under ordering = ['-valuation_date']
LatestValuation(d) ==
  CHOOSE v \in ValuationsOf(d) :
    \A w \in ValuationsOf(d) : w.valuation_date <= v.valuation_date

\* CashFlowTerm with EXPENSE added instead of subtracted
CashFlowTerm_ExpenseAdded(t) ==
  IF t.transaction_type = "INCOME" THEN t.amount
  ELSE IF t.transaction_type = "EXPENSE" THEN t.amount
  ELSE 0

\* CashFlowTerm with the amount of every other type counted as income
CashFlowTerm_DistributionCounted(t) ==
  IF t.transaction_type = "EXPENSE" THEN t.amount * (-1)
  ELSE t.amount

\* models.py:127-131: the Case of the aggregate
CashFlowTerm(t) ==
  IF t.transaction_type = "INCOME" THEN t.amount
  ELSE IF t.transaction_type = "EXPENSE" THEN t.amount * (-1)
  ELSE 0

\* SumCashFlow that takes the most recently inserted of the filtered rows
SumCashFlow_NewestOnly(d, since, k) ==
  LET K == {j \in 1..k : /\ transactions[j].deal = d
                         /\ transactions[j].transaction_date > since}
  IN IF K = {} THEN 0
     ELSE CashFlowTerm(transactions[CHOOSE j \in K : \A i \in K : i <= j])

\* models.py:123-133: Sum over self.transactions.filter(transaction_date__gt)
RECURSIVE SumCashFlow(_, _, _)
SumCashFlow(d, since, k) ==
  IF k = 0 THEN 0
  ELSE (IF transactions[k].deal = d /\ transactions[k].transaction_date > since
        THEN CashFlowTerm(transactions[k]) ELSE 0)
       + SumCashFlow(d, since, k - 1)

net_cash_flow(d, latest_valuation_date) ==
  SumCashFlow(d, Midnight(latest_valuation_date), Len(transactions))

\* calculate_current_share_value that, with no Valuation, takes the raise
\* amount for the valuation and adds the deal's cash flow
calculate_current_share_value_NoFallback(d) ==
  LET current_nav ==
        IF ValuationsOf(d) = {}
        THEN dealTarget[d] + SumCashFlow(d, 0, Len(transactions))
        ELSE LatestValuation(d).total_valuation
             + net_cash_flow(d, LatestValuation(d).valuation_date)
  IN IF dealShares[d] = 0
     THEN 0
     ELSE DivideAndQuantize(current_nav, dealShares[d])

\* calculate_current_share_value without the zero-shares test of models.py:139
calculate_current_share_value_NoZeroGuard(d) ==
  IF ValuationsOf(d) = {}
  THEN price_per_share(d)
  ELSE LET latest_valuation == LatestValuation(d)
           current_nav == latest_valuation.total_valuation
                          + net_cash_flow(d, latest_valuation.valuation_date)
       IN DivideAndQuantize(current_nav, dealShares[d])

\* models.py:105-144
calculate_current_share_value(d) ==
  IF ValuationsOf(d) = {}
  THEN price_per_share(d)
  ELSE LET latest_valuation == LatestValuation(d)
           current_nav == latest_valuation.total_valuation
                          + net_cash_flow(d, latest_valuation.valuation_date)
       IN IF dealShares[d] = 0
          THEN 0
          ELSE DivideAndQuantize(current_nav, dealShares[d])

HoldingsOf(d) == {h \in holdings : h.deal = d}

\* models.py:156-162
RECURSIVE SumSharesHeld(_)
SumSharesHeld(S) ==
  IF S = {} THEN 0
  ELSE LET h == CHOOSE x \in S : TRUE
       IN h.shares_held + SumSharesHeld(S \ {h})

total_shares_sold(d) == SumSharesHeld(HoldingsOf(d))

\* shares_available that never goes below zero
shares_available_Clamped(d) ==
  IF dealShares[d] < total_shares_sold(d) THEN 0
  ELSE dealShares[d] - total_shares_sold(d)

\* models.py:163-168
shares_available(d) == dealShares[d] - total_shares_sold(d)

\* models.py:170-180, in hundredths of a percent.  The float quotient and
\* product are exact for the share counts of this model (powers of two), and
\* round(percent, 2) then rounds half to even.
percentage_sold(d) ==
  IF dealShares[d] = 0
  THEN 0
  ELSE DivideAndQuantize(total_shares_sold(d) * 10000, dealShares[d])

\* ------------------------------------------------------ Deal: operations
\* DealUpdateView with DealForm (views.py:156-165, forms.py:30-37)
EditDeal(d, target, shares) ==
  /\ <<target, shares>> # <<dealTarget[d], dealShares[d]>>
  /\ dealTarget' = [dealTarget EXCEPT ![d] = target]
  /\ dealShares' = [dealShares EXCEPT ![d] = shares]
  /\ UNCHANGED <<valuations, holdings, subPc, subReq, subShares, subAt>>
  /\ UNCHANGED <<posVars, siteVars>>

\* admin.py:66-68 and :84: a Valuation added on the Deal's admin page;
\* unique_together (deal, valuation_date) refuses a second one of that date
AddValuation(d, day, total) ==
  /\ Cardinality(valuations) < MaxVals
  /\ \A v \in ValuationsOf(d) : v.valuation_date # day
  /\ valuations' = valuations \cup
       {[id |-> Cardinality(valuations) + 1, deal |-> d,
         valuation_date |-> day, total_valuation |-> total]}
  /\ UNCHANGED <<dealTarget, dealShares, holdings, subPc, subReq, subShares,
                 subAt>>
  /\ UNCHANGED <<posVars, siteVars>>

LedgerUnchanged ==
  UNCHANGED <<variantPrice, cart, sales, saleItems, now, pc, reqCart, reqSale,
              reqTodo, aborted, cartGen, reqGen, removed>>

\* deal_transaction_view with TransactionForm (views.py:168-181): the date
\* widget posts a date, which the DateTimeField reads as that day's midnight
RecordTransaction(d, type, amount, day) ==
  /\ Len(transactions) < MaxTx
  /\ transactions' = Append(transactions,
       [deal |-> d, transaction_type |-> type, amount |-> amount,
        transaction_date |-> Midnight(day), sale |-> 0])
  /\ LedgerUnchanged
  /\ UNCHANGED <<dealVars, siteVars>>

\* admin.py:69-71 and :84: a Transaction added on the Deal's admin page,
\* with a date and a time of day
AdminAddTransaction(d, type, amount, dt) ==
  /\ Len(transactions) < MaxTx
  /\ transactions' = Append(transactions,
       [deal |-> d, transaction_type |-> type, amount |-> amount,
        transaction_date |-> dt, sale |-> 0])
  /\ LedgerUnchanged
  /\ UNCHANGED <<dealVars, siteVars>>

\* admin.py:80-84, the delete of a Deal: Holding.deal is PROTECT
\* (models.py:190), so the delete is refused with a ProtectedError while the
\* Deal has a Holding; else Valuation.deal, Transaction.deal and Sale.deal
\* are CASCADE (models.py:207, :231, :245), and SaleItem.sale after them
\* (models.py:284)
DeleteDeal(d) ==
  /\ d \in deals
  /\ dealDelete' = [asked |-> TRUE, deal |-> d]
  /\ IF HoldingsOf(d) # {}
     THEN UNCHANGED <<deals, valuations, transactions, sales, saleItems>>
     ELSE /\ deals' = deals \ {d}
          /\ valuations' = valuations \ ValuationsOf(d)
          /\ transactions' = SelectSeq(transactions, LAMBDA t : t.deal # d)
          /\ sales' = {x \in sales : x.deal # d}
          /\ saleItems' =
               {x \in saleItems : \E y \in sales : y.id = x.sale /\ y.deal # d}
  /\ UNCHANGED <<variantPrice, cart, now, pc, reqCart, reqSale, reqTodo,
                 aborted, cartGen, reqGen, removed>>
  /\ UNCHANGED <<dealTarget, dealShares, holdings, subPc, subReq, subShares,
                 subAt>>
  /\ UNCHANGED <<salesForm, posAccess, items, categories, userActive,
                 toggleReq>>

\* -------------------------------------------------- Deal: subscription
HoldingRow(inv, d) == {h \in holdings : h.investor = inv /\ h.deal = d}

RECURSIVE SumSubShares(_)
SumSubShares(K) ==
  IF K = {} THEN 0
  ELSE LET k == CHOOSE x \in K : TRUE
       IN subShares[k] + SumSubShares(K \ {k})

\* history of a subscription that went through: its shares, and the
\* price_per_share its cost basis was computed with
Subscribed(q) ==
  /\ subShares' = [subShares EXCEPT ![<<q.investor, q.deal>>] = @ + q.new_shares]
  /\ subAt' = [subAt EXCEPT ![<<q.investor, q.deal>>] = @ \cup {q.price}]

\* SubscribeBegin with the cost basis taken at the current share value
SubscribeBegin_AtNav(r, inv, d, n) ==
  /\ subPc[r] = "idle"
  /\ SumSubShares(Investors \X Deals) + n <= MaxHeld
  /\ LET q == [investor |-> inv, deal |-> d, new_shares |-> n,
               new_cost_basis |-> n * calculate_current_share_value(d),
               price |-> price_per_share(d)]
     IN IF HoldingRow(inv, d) = {}
        THEN /\ subReq' = [subReq EXCEPT ![r] = q]
             /\ subPc' = [subPc EXCEPT ![r] = "create"]
        ELSE /\ subReq' = [subReq EXCEPT ![r] =
                  [holding |-> CHOOSE h \in HoldingRow(inv, d) : TRUE] @@ q]
             /\ subPc' = [subPc EXCEPT ![r] = "increment"]
  /\ UNCHANGED <<dealTarget, dealShares, valuations, holdings, subShares, subAt>>
  /\ UNCHANGED <<posVars, siteVars>>

\* views.py:99-113: for an active, launched deal the form is valid (the
\* share counts of this model are positive), new_cost_basis is computed from
\* the deal's price_per_share, and get_or_create looks the Holding up
SubscribeBegin(r, inv, d, n) ==
  /\ subPc[r] = "idle"
  /\ SumSubShares(Investors \X Deals) + n <= MaxHeld
  /\ LET q == [investor |-> inv, deal |-> d, new_shares |-> n,
               new_cost_basis |-> n * price_per_share(d),
               price |-> price_per_share(d)]
     IN IF HoldingRow(inv, d) = {}
        THEN /\ subReq' = [subReq EXCEPT ![r] = q]
             /\ subPc' = [subPc EXCEPT ![r] = "create"]
        ELSE /\ subReq' = [subReq EXCEPT ![r] =
                  [holding |-> CHOOSE h \in HoldingRow(inv, d) : TRUE] @@ q]
             /\ subPc' = [subPc EXCEPT ![r] = "increment"]
  /\ UNCHANGED <<dealTarget, dealShares, valuations, holdings, subShares, subAt>>
  /\ UNCHANGED <<posVars, siteVars>>

\* SubscribeCreate on a table without the unique constraint of models.py:197:
\* the INSERT always goes through
SubscribeCreate_NoUnique(r) ==
  /\ subPc[r] = "create"
  /\ LET q == subReq[r]
     IN /\ holdings' = holdings \cup
             {[investor |-> q.investor, deal |-> q.deal,
               shares_held |-> q.new_shares,
               total_cost_basis |-> q.new_cost_basis]}
        /\ Subscribed(q)
  /\ subReq' = [subReq EXCEPT ![r] = NoSub]
  /\ subPc' = [subPc EXCEPT ![r] = "idle"]
  /\ UNCHANGED <<dealTarget, dealShares, valuations>>
  /\ UNCHANGED <<posVars, siteVars>>

\* views.py:106-113, the create of get_or_create: the INSERT, or, when
\* unique_together (investor, deal) refuses it with an IntegrityError (history
\* field integrity_error), the second lookup
SubscribeCreate(r) ==
  /\ subPc[r] = "create"
  /\ LET q == subReq[r]
     IN IF HoldingRow(q.investor, q.deal) = {}
        THEN /\ holdings' = holdings \cup
                  {[investor |-> q.investor, deal |-> q.deal,
                    shares_held |-> q.new_shares,
                    total_cost_basis |-> q.new_cost_basis]}
             /\ Subscribed(q)
             /\ subReq' = [subReq EXCEPT ![r] = NoSub]
             /\ subPc' = [subPc EXCEPT ![r] = "idle"]
        ELSE /\ subReq' = [subReq EXCEPT ![r] =
                  [holding |-> CHOOSE h \in HoldingRow(q.investor, q.deal) : TRUE,
                   integrity_error |-> TRUE] @@ q]
             /\ subPc' = [subPc EXCEPT ![r] = "increment"]
             /\ UNCHANGED <<holdings, subShares, subAt>>
  /\ UNCHANGED <<dealTarget, dealShares, valuations>>
  /\ UNCHANGED <<posVars, siteVars>>

\* SubscribeSave that stores the new shares and cost instead of adding them
SubscribeSave_Overwrite(r) ==
  /\ subPc[r] = "increment"
  /\ LET q == subReq[r]
         saved == [q.holding EXCEPT
                     !.shares_held = q.new_shares,
                     !.total_cost_basis = q.new_cost_basis]
     IN /\ holdings' = (holdings \ HoldingRow(q.investor, q.deal)) \cup {saved}
        /\ Subscribed(q)
  /\ subReq' = [subReq EXCEPT ![r] = NoSub]
  /\ subPc' = [subPc EXCEPT ![r] = "idle"]
  /\ UNCHANGED <<dealTarget, dealShares, valuations>>
  /\ UNCHANGED <<posVars, siteVars>>

\* views.py:115-118: the Holding object read earlier is incremented and saved
SubscribeSave(r) ==
  /\ subPc[r] = "increment"
  /\ LET q == subReq[r]
         saved == [q.holding EXCEPT
                     !.shares_held = @ + q.new_shares,
                     !.total_cost_basis = @ + q.new_cost_basis]
     IN /\ holdings' = (holdings \ HoldingRow(q.investor, q.deal)) \cup {saved}
        /\ Subscribed(q)
  /\ subReq' = [subReq EXCEPT ![r] = NoSub]
  /\ subPc' = [subPc EXCEPT ![r] = "idle"]
  /\ UNCHANGED <<dealTarget, dealShares, valuations>>
  /\ UNCHANGED <<posVars, siteVars>>

\* ------------------------------------------------------- POS: access
\* PosAllowed that lets every MANAGER in
PosAllowed_AnyManager(profile, d) ==
  LET asset == DealAsset[d]
      is_cashier == profile.role = "CASHIER" /\ profile.assigned_asset = asset
      is_manager_or_owner == profile.role \in {"MANAGER", "OWNER"}
  IN is_cashier \/ is_manager_or_owner

\* views.py:590-595
PosAllowed(profile, d) ==
  LET asset == DealAsset[d]
      is_cashier == profile.role = "CASHIER" /\ profile.assigned_asset = asset
      is_manager_or_owner ==
        /\ profile.role \in {"MANAGER", "OWNER"}
        /\ (profile.role = "OWNER" \/ profile.assigned_asset = asset)
  IN is_cashier \/ is_manager_or_owner

\* views.py:586-597: a user opens the POS page of deal d; the requests they
\* post there are served only when the test lets them through, else each is
\* answered with an error message and a redirect to the dashboard
PosEnter(profile, d) ==
  /\ Quiet
  /\ posAccess' = [tested |-> TRUE, granted |-> PosAllowed(profile, d),
                   profile |-> profile, deal |-> d]
  /\ UNCHANGED <<posVars, dealVars, salesForm, items, categories, deals,
                 dealDelete, userActive, toggleReq>>

\* ------------------------------------------------------------- users
\* ToggleUser that does not compare the cashier's asset with the manager's
ToggleUser_AnyCashier(requester, user_pk) ==
  LET profile == UserProfile[requester]
  IN /\ toggleReq' = [asked |-> TRUE, requester |-> requester,
                       user_pk |-> user_pk]
     /\ IF profile.role # "MANAGER" \/ profile.assigned_asset = None
        THEN UNCHANGED userActive
        ELSE IF user_pk \notin Users
        THEN UNCHANGED userActive
        ELSE IF UserProfile[user_pk].role = "CASHIER"
        THEN userActive' = [userActive EXCEPT ![user_pk] = ~@]
        ELSE UNCHANGED userActive
     /\ UNCHANGED <<posVars, dealVars>>
     /\ UNCHANGED <<salesForm, posAccess, items, categories, deals, dealDelete>>

\* views.py:245-273: a POST of user_pk to manage_users_view.  A requester
\* who is no MANAGER or has no asset is redirected (:247-249); a user_pk
\* without a User row is answered "User not found" (:270-271); else the
\* user is toggled when they are a CASHIER of the manager's asset (:258-262)
ToggleUser(requester, user_pk) ==
  LET profile == UserProfile[requester]
      manager_asset == profile.assigned_asset
  IN /\ toggleReq' = [asked |-> TRUE, requester |-> requester,
                       user_pk |-> user_pk]
     /\ IF profile.role # "MANAGER" \/ profile.assigned_asset = None
        THEN UNCHANGED userActive
        ELSE IF user_pk \notin Users
        THEN UNCHANGED userActive
        ELSE IF /\ UserProfile[user_pk].role = "CASHIER"
                /\ UserProfile[user_pk].assigned_asset = manager_asset
        THEN userActive' = [userActive EXCEPT ![user_pk] = ~@]
        ELSE UNCHANGED userActive
     /\ UNCHANGED <<posVars, dealVars>>
     /\ UNCHANGED <<salesForm, posAccess, items, categories, deals, dealDelete>>

\* ------------------------------------------------------------- forms
\* forms.py:85-89: Decimal(0) is falsy, so the test of :87 is passed by it
clean_amount(amount) ==
  IF amount # 0 /\ amount <= 0
  THEN [error |-> "Sales amount must be a positive number."]
  ELSE [value |-> amount]

\* forms.py:68-89: a SalesEntryForm is bound to a posted amount and validated
SubmitSalesEntry(amount) ==
  /\ salesForm' = [bound |-> TRUE, amount |-> amount,
                   cleaned |-> clean_amount(amount)]
  /\ UNCHANGED <<posVars, dealVars, posAccess, items, categories, deals,
                 dealDelete, userActive, toggleReq>>

\* ------------------------------------------------------- specifications
PosIdle ==
  /\ cart = EmptyCart
  /\ sales = {}
  /\ saleItems = {}
  /\ transactions = <<>>
  /\ now = 0
  /\ pc = [r \in Reqs |-> "idle"]
  /\ reqCart = [r \in Reqs |-> EmptyCart]
  /\ reqSale = [r \in Reqs |-> NoSale]
  /\ reqTodo = [r \in Reqs |-> {}]
  /\ aborted = {}
  /\ cartGen = 0
  /\ reqGen = [r \in Reqs |-> 0]
  /\ removed = NoItem

PosInit == variantPrice \in [Variants -> Prices] /\ PosIdle

SubIdle ==
  /\ subPc = [r \in Reqs |-> "idle"]
  /\ subReq = [r \in Reqs |-> NoSub]
  /\ subShares = [k \in Investors \X Deals |-> 0]
  /\ subAt = [k \in Investors \X Deals |-> {}]

SiteIdle ==
  /\ salesForm = NoForm
  /\ posAccess = NoAccess
  /\ items = Items
  /\ categories = Categories
  /\ deals = Deals
  /\ dealDelete = NoDelete
  /\ userActive = [u \in Users |-> TRUE]
  /\ toggleReq = NoToggle

\* the catalog and the cart of the deal-side specifications stay as created
PosFixed == variantPrice = [v \in Variants |-> 10] /\ PosIdle

\* the deals of the POS specifications keep one offering and an empty ledger
DealsFixed ==
  /\ dealTarget = [d \in Deals |-> 10]
  /\ dealShares = [d \in Deals |-> 4]
  /\ valuations = {}
  /\ holdings = {}
  /\ SubIdle
  /\ SiteIdle

Init == PosInit /\ DealsFixed

\* checkout requests of one session overlap and interleave at every database
\* and session access; the cart and the catalog change between them
Next ==
  \/ Quiet /\ \E v \in Variants : AddToCart(v)
  \/ Quiet /\ \E v \in Variants : RemoveFromCart(v)
  \/ Quiet /\ \E v \in Variants, p \in Prices : EditVariantPrice(v, p)
  \/ Quiet /\ \E v \in Variants : DeleteVariant(v)
  \/ \E r \in Reqs, d \in Deals : CheckoutBegin(r, d)
  \/ \E r \in Reqs : CheckoutReject(r)
  \/ \E r \in Reqs : Respond(r)
  \/ \E r \in Reqs : CreateSale(r)
  \/ \E r \in Reqs, v \in Variants : CreateSaleItem(r, v)
  \/ \E r \in Reqs : FinalizeTotal(r)
  \/ \E r \in Reqs : CreateTransaction(r)
  \/ \E r \in Reqs : ClearCart(r)

Spec == Init /\ [][Next]_vars

\* one request at a time: a request starts, and the catalog, the cart and
\* the clock change, only while no other request is under way
SeqNext ==
  \/ Quiet /\ \E v \in Variants : AddToCart(v)
  \/ Quiet /\ \E v \in Variants : RemoveFromCart(v)
  \/ Quiet /\ \E v \in Variants, p \in Prices : EditVariantPrice(v, p)
  \/ Quiet /\ \E v \in Variants : DeleteVariant(v)
  \/ Quiet /\ \E d \in Deals : CheckoutBegin(SeqReq, d)
  \/ \E r \in Reqs : CheckoutReject(r)
  \/ \E r \in Reqs : Respond(r)
  \/ \E r \in Reqs : CreateSale(r)
  \/ \E r \in Reqs, v \in Variants : CreateSaleItem(r, v)
  \/ \E r \in Reqs : FinalizeTotal(r)
  \/ \E r \in Reqs : CreateTransaction(r)
  \/ \E r \in Reqs : ClearCart(r)

SeqSpec == Init /\ [][SeqNext]_vars

\* the ledger of the deals: offerings, valuations and transactions.  No
\* subscription runs here: investor 1 has subscribed SeedShares shares of
\* every deal, at a price_per_share of SeedPrice
SeedHoldings ==
  {[investor |-> 1, deal |-> d, shares_held |-> SeedShares,
    total_cost_basis |-> SeedShares * SeedPrice] : d \in Deals}

NavInit ==
  /\ PosFixed
  /\ dealTarget \in [Deals -> Targets]
  /\ dealShares \in [Deals -> ShareCounts]
  /\ valuations = {}
  /\ holdings = SeedHoldings
  /\ SubIdle
  /\ SiteIdle

NavNext ==
  \/ \E d \in Deals, t \in Targets, n \in ShareCounts : EditDeal(d, t, n)
  \/ \E d \in Deals, day \in Days, total \in ValTotals :
       AddValuation(d, day, total)
  \/ \E d \in Deals, type \in TransactionTypes, a \in Amounts, day \in Days :
       RecordTransaction(d, type, a, day)
  \/ \E d \in Deals, type \in TransactionTypes, a \in Amounts,
        dt \in DateTimes : AdminAddTransaction(d, type, a, dt)

NavSpec == NavInit /\ [][NavNext]_vars

\* the holding ledger, one subscription request at a time
HoldInit ==
  /\ PosFixed
  /\ dealTarget \in [Deals -> Targets]
  /\ dealShares \in [Deals -> ShareCounts]
  /\ valuations = {}
  /\ holdings = {}
  /\ SubIdle
  /\ SiteIdle

SubQuiet == \A r \in Reqs : subPc[r] = "idle"

HoldSeqNext ==
  \/ SubQuiet /\ \E d \in Deals, t \in Targets, n \in ShareCounts :
       EditDeal(d, t, n)
  \/ SubQuiet /\ \E inv \in Investors, d \in Deals, n \in SubShares :
       SubscribeBegin(SeqReq, inv, d, n)
  \/ \E r \in Reqs : SubscribeCreate(r)
  \/ \E r \in Reqs : SubscribeSave(r)

HoldSeqSpec == HoldInit /\ [][HoldSeqNext]_vars

\* subscription requests overlap and interleave at every database access
HoldNext ==
  \/ SubQuiet /\ \E d \in Deals, t \in Targets, n \in ShareCounts :
       EditDeal(d, t, n)
  \/ \E r \in Reqs, inv \in Investors, d \in Deals, n \in SubShares :
       SubscribeBegin(r, inv, d, n)
  \/ \E r \in Reqs : SubscribeCreate(r)
  \/ \E r \in Reqs : SubscribeSave(r)

HoldSpec == HoldInit /\ [][HoldNext]_vars

\* the holding ledger, one subscription request at a time, of deals that are
\* valued and earn income in between
SubNavNext ==
  \/ SubQuiet /\ \E d \in Deals, t \in Targets, n \in ShareCounts :
       EditDeal(d, t, n)
  \/ SubQuiet /\ \E d \in Deals : AddValuation(d, 1, 7)
  \/ SubQuiet /\ Len(transactions) < MaxSubTx
       /\ \E d \in Deals : RecordTransaction(d, "INCOME", 4, 2)
  \/ SubQuiet /\ \E inv \in Investors, d \in Deals, n \in SubShares :
       SubscribeBegin(SeqReq, inv, d, n)
  \/ \E r \in Reqs : SubscribeCreate(r)
  \/ \E r \in Reqs : SubscribeSave(r)

SubNavSpec == HoldInit /\ [][SubNavNext]_vars

\* the holding ledger, one subscription request at a time, of deals whose
\* offering is resized to a few shares
OfferSeqNext ==
  \/ SubQuiet /\ \E d \in Deals, n \in SmallOffers :
       EditDeal(d, dealTarget[d], n)
  \/ SubQuiet /\ \E inv \in Investors, d \in Deals, n \in SubShares :
       SubscribeBegin(SeqReq, inv, d, n)
  \/ \E r \in Reqs : SubscribeCreate(r)
  \/ \E r \in Reqs : SubscribeSave(r)

OfferSeqSpec == HoldInit /\ [][OfferSeqNext]_vars

\* sales-entry forms posted with amounts of either sign
FormAmounts == (0 - MaxAmount)..MaxAmount

FormInit == PosFixed /\ DealsFixed

\* a fixed catalog and fixed offerings, no request under way
SiteInit == PosFixed /\ DealsFixed

FormNext == \E amount \in FormAmounts : SubmitSalesEntry(amount)

FormSpec == FormInit /\ [][FormNext]_vars

\* the POS pages as users of every role and assignment post to them, one
\* request at a time, over a catalog that stays as it is
PosAuthNext ==
  \/ \E profile \in Profiles, d \in Deals : PosEnter(profile, d)
  \/ posAccess.granted /\ Quiet /\ \E v \in Variants : AddToCart(v)
  \/ posAccess.granted /\ Quiet /\ \E v \in Variants : RemoveFromCart(v)
  \/ posAccess.granted /\ Quiet /\ CheckoutBegin(SeqReq, posAccess.deal)
  \/ \E r \in Reqs : CheckoutReject(r)
  \/ \E r \in Reqs : Respond(r)
  \/ \E r \in Reqs : CreateSale(r)
  \/ \E r \in Reqs, v \in Variants : CreateSaleItem(r, v)
  \/ \E r \in Reqs : FinalizeTotal(r)
  \/ \E r \in Reqs : CreateTransaction(r)
  \/ \E r \in Reqs : ClearCart(r)

PosAuthSpec == SiteInit /\ [][PosAuthNext]_vars

\* the POS one request at a time, over a catalog whose Variants, Items and
\* Categories are deleted between the requests
CatalogNext ==
  \/ Quiet /\ \E v \in Variants : AddToCart(v)
  \/ Quiet /\ \E v \in Variants : DeleteVariant(v)
  \/ Quiet /\ \E i \in Items : DeleteItem(i)
  \/ Quiet /\ \E c \in Categories : DeleteCategory(c)
  \/ Quiet /\ \E d \in Deals : CheckoutBegin(SeqReq, d)
  \/ \E r \in Reqs : CheckoutReject(r)
  \/ \E r \in Reqs : Respond(r)
  \/ \E r \in Reqs : CreateSale(r)
  \/ \E r \in Reqs, v \in Variants : CreateSaleItem(r, v)
  \/ \E r \in Reqs : FinalizeTotal(r)
  \/ \E r \in Reqs : CreateTransaction(r)
  \/ \E r \in Reqs : ClearCart(r)

CatalogSpec == SiteInit /\ [][CatalogNext]_vars

\* deals that are valued, earn income, are subscribed to one request at a
\* time, and are deleted
DealDeleteNext ==
  \/ SubQuiet /\ \E d \in deals : AddValuation(d, 1, 7)
  \/ SubQuiet /\ Len(transactions) < MaxSubTx
       /\ \E d \in deals : RecordTransaction(d, "INCOME", 4, 2)
  \/ SubQuiet /\ \E inv \in Investors, d \in deals, n \in SubShares :
       SubscribeBegin(SeqReq, inv, d, n)
  \/ \E r \in Reqs : SubscribeCreate(r)
  \/ \E r \in Reqs : SubscribeSave(r)
  \/ SubQuiet /\ \E d \in Deals : DeleteDeal(d)

DealDeleteSpec == SiteInit /\ [][DealDeleteNext]_vars

\* users of every role post every user_pk to manage_users_view
UsersNext ==
  \E requester \in Users, user_pk \in UserPks : ToggleUser(requester, user_pk)

UsersSpec == SiteInit /\ [][UsersNext]_vars

\* ------------------------------------------------------------ POS claims
TxOfSale(id) == {k \in 1..Len(transactions) : transactions[k].sale = id}

MatchingTxOfSale(s) ==
  {k \in TxOfSale(s.id) :
     /\ transactions[k].transaction_type = "INCOME"
     /\ transactions[k].deal = s.deal
     /\ transactions[k].amount = s.total_amount
     /\ transactions[k].transaction_date = s.created_at}

DbUnchanged ==
  /\ sales' = sales
  /\ saleItems' = saleItems
  /\ transactions' = transactions

\* C1: once no request is under way, every persisted Sale has exactly one
\* Transaction, and it is an INCOME of the Sale's deal, amount and created_at
C1_OneTransactionPerSale ==
  Quiet => \A s \in sales :
             /\ Cardinality(TxOfSale(s.id)) = 1
             /\ MatchingTxOfSale(s) = TxOfSale(s.id)

\* C2: in every state, each persisted Sale's total_amount is the sum of
\* quantity * price_at_sale over its SaleItems
C2_NoDrift ==
  \A s \in sales : s.total_amount = SumTotalPrice(ItemsOf(s.id))

\* C3: a checkout that failed partway leaves no Sale and no SaleItem behind
C3_AllOrNothing ==
  /\ \A s \in sales : s.id \notin aborted
  /\ \A i \in saleItems : i.sale \notin aborted

\* C4: the checkouts that read one and the same cart (the same cart
\* generation) and went through produce at most one Sale and one Transaction
C4_NoDoubleSale ==
  \A s1, s2 \in sales :
     (s1.gen = s2.gen /\ s1.id \notin aborted /\ s2.id \notin aborted)
       => s1 = s2

\* C5: a checkout on an empty cart is refused with an error, and from the
\* read of the cart to the response neither the Sale, SaleItem and
\* Transaction tables nor the session cart change
C5_Same == DbUnchanged /\ cart' = cart

C5_EmptyCartRejected ==
  [][\A r \in Reqs :
       /\ (pc[r] = "idle" /\ pc'[r] = "checkout" /\ CartKeys(cart) = {})
            => (CartKeys(reqCart'[r]) = {} /\ C5_Same)
       /\ (pc[r] = "checkout" /\ CartKeys(reqCart[r]) = {})
            => (pc'[r] = "rejected" /\ C5_Same)
       /\ (pc[r] = "rejected")
            => (pc'[r] = "idle" /\ C5_Same)]_vars

C5_Witness ==
  \E r \in Reqs : pc[r] = "rejected" /\ sales # {} /\ CartKeys(cart) = {}

\* C6: every SaleItem's price_at_sale is the Variant's price at the moment
\* its cart entry was created (history field snap), the total of a finalized
\* Sale is made of those prices, and a later change of Variant.price changes
\* no SaleItem and no Sale
RECURSIVE SumSnap(_)
SumSnap(S) ==
  IF S = {} THEN 0
  ELSE LET i == CHOOSE x \in S : TRUE
       IN i.quantity * i.snap + SumSnap(S \ {i})

C6_Snapshot ==
  /\ \A i \in saleItems : i.price_at_sale = i.snap
  /\ \A s \in sales :
       TxOfSale(s.id) # {} => s.total_amount = SumSnap(ItemsOf(s.id))

C6_PriceAtSale ==
  /\ []C6_Snapshot
  /\ [][variantPrice' # variantPrice => (sales' = sales /\ saleItems' = saleItems)]_vars

C6_Witness ==
  \E s \in sales : \E i \in ItemsOf(s.id) :
     /\ TxOfSale(s.id) # {}
     /\ variantPrice[i.variant] # i.price_at_sale
     /\ i.quantity > 1

\* ----------------------------------------------------------- Deal claims
\* the Transactions of deal d dated after midnight of day
CountedTx(d, day) ==
  {k \in 1..Len(transactions) :
     /\ transactions[k].deal = d
     /\ transactions[k].transaction_date > day * TicksPerDay}

RECURSIVE SumAmounts(_, _)
SumAmounts(K, type) ==
  IF K = {} THEN 0
  ELSE LET k == CHOOSE x \in K : TRUE
       IN (IF transactions[k].transaction_type = type
           THEN transactions[k].amount ELSE 0)
          + SumAmounts(K \ {k}, type)

\* r is n / d rounded to a whole number of cents
IsRounded(r, n, d) == 2 * Abs(r * d - n) <= d

GreatestDate(d) ==
  CHOOSE day \in Days :
    /\ \E v \in ValuationsOf(d) : v.valuation_date = day
    /\ \A v \in ValuationsOf(d) : v.valuation_date <= day

C7_Nav(d) ==
  LET day == GreatestDate(d)
      K == CountedTx(d, day)
      v == CHOOSE w \in ValuationsOf(d) : w.valuation_date = day
  IN v.total_valuation + SumAmounts(K, "INCOME") - SumAmounts(K, "EXPENSE")

\* C7: with shares offered and a Valuation, the share value is (latest
\* total_valuation + INCOME - EXPENSE since that valuation) / shares rounded
\* to a cent, and a negative value is returned as it is
C7_NavPerShare ==
  \A d \in Deals :
    (dealShares[d] > 0 /\ ValuationsOf(d) # {}) =>
      /\ IsRounded(calculate_current_share_value(d), C7_Nav(d), dealShares[d])
      /\ C7_Nav(d) <= -dealShares[d] => calculate_current_share_value(d) < 0

C7_Witness ==
  \E d \in Deals :
    /\ dealShares[d] > 0 /\ ValuationsOf(d) # {}
    /\ \E j, k \in CountedTx(d, GreatestDate(d)) :
         /\ transactions[j].transaction_type = "INCOME"
         /\ transactions[k].transaction_type = "EXPENSE"
         /\ transactions[k].amount > 0
    /\ calculate_current_share_value(d) < 0

\* C8: with no Valuation the share value is price_per_share, that is
\* target_raise_amount / total_shares_offered rounded to a cent, whatever
\* Transactions the deal has
C8_NoValuation ==
  \A d \in Deals :
    ValuationsOf(d) = {} =>
      /\ calculate_current_share_value(d) = price_per_share(d)
      /\ dealShares[d] > 0 =>
           IsRounded(calculate_current_share_value(d), dealTarget[d],
                     dealShares[d])

C8_Witness ==
  \E d \in Deals :
    /\ ValuationsOf(d) = {} /\ dealShares[d] > 0
    /\ \E k \in 1..Len(transactions) :
         /\ transactions[k].deal = d
         /\ transactions[k].transaction_type = "INCOME"
         /\ transactions[k].amount > 0
    /\ calculate_current_share_value(d) > 0

\* C9: with total_shares_offered = 0, price_per_share, the share value and
\* percentage_sold are all 0, and none of them raises a division by zero
C9_ZeroShares ==
  \A d \in Deals :
    dealShares[d] = 0 =>
      /\ price_per_share(d) = 0
      /\ calculate_current_share_value(d) = 0
      /\ percentage_sold(d) = 0

C9_Witness ==
  \E d \in Deals :
    /\ dealShares[d] = 0 /\ dealTarget[d] > 0
    /\ ValuationsOf(d) # {}
    /\ \E k \in 1..Len(transactions) :
         transactions[k].deal = d /\ transactions[k].transaction_type = "INCOME"
    /\ total_shares_sold(d) > 0

\* C10: after subscriptions of s1..sn shares made one after the other for
\* one (investor, deal), all at one price_per_share that still stands, there
\* is exactly one Holding of the pair, with shares_held = s1 + ... + sn and
\* total_cost_basis = (s1 + ... + sn) * price_per_share
C10_Subscriptions ==
  SubQuiet =>
    \A inv \in Investors, d \in Deals :
      LET k == <<inv, d>>
      IN /\ subShares[k] = 0 => HoldingRow(inv, d) = {}
         /\ subShares[k] > 0 =>
              /\ Cardinality(HoldingRow(inv, d)) = 1
              /\ \A h \in HoldingRow(inv, d) :
                   /\ h.shares_held = subShares[k]
                   /\ subAt[k] = {price_per_share(d)} =>
                        h.total_cost_basis = subShares[k] * price_per_share(d)

C10_Witness ==
  /\ SubQuiet
  /\ \E inv \in Investors, d \in Deals :
       /\ subShares[<<inv, d>>] = MaxHeld
       /\ subAt[<<inv, d>>] = {price_per_share(d)}
       /\ price_per_share(d) > 0

\* C11: under every interleaving of two subscriptions, an (investor, deal)
\* pair never has two Holding rows, and every request that ends has either
\* inserted the pair's row or added its shares and cost to the Holding it
\* read and saved it: none ends on the uniqueness error
C11_OneRow ==
  \A inv \in Investors, d \in Deals : Cardinality(HoldingRow(inv, d)) <= 1

C11_RowAfter(inv, d) == {h \in holdings' : h.investor = inv /\ h.deal = d}

C11_Created(q) ==
  /\ HoldingRow(q.investor, q.deal) = {}
  /\ C11_RowAfter(q.investor, q.deal) =
       {[investor |-> q.investor, deal |-> q.deal,
         shares_held |-> q.new_shares, total_cost_basis |-> q.new_cost_basis]}

C11_Incremented(q) ==
  /\ "holding" \in DOMAIN q
  /\ C11_RowAfter(q.investor, q.deal) =
       {[investor |-> q.investor, deal |-> q.deal,
         shares_held |-> q.holding.shares_held + q.new_shares,
         total_cost_basis |-> q.holding.total_cost_basis + q.new_cost_basis]}

C11_ConcurrentUpsert ==
  /\ []C11_OneRow
  /\ [][\A r \in Reqs :
         (subPc[r] # "idle" /\ subPc'[r] = "idle") =>
           (C11_Created(subReq[r]) \/ C11_Incremented(subReq[r]))]_vars

C11_Witness ==
  /\ C11_OneRow
  /\ \E r \in Reqs :
       /\ subPc[r] = "increment"
       /\ "integrity_error" \in DOMAIN subReq[r]
       /\ subReq[r].holding.shares_held # subReq[r].new_shares

\* n / d for d > 0 to the nearest integer, ties away from zero
C12_HalfUp(n, d) ==
  LET q == Abs(n) \div d
      r == Abs(n) % d
  IN Sign(n) * (IF 2 * r >= d THEN q + 1 ELSE q)

\* C12: price_per_share and the share value round their quotient half-up: a
\* quotient exactly half a cent between two cents goes away from zero
C12_RoundHalfUp ==
  \A d \in Deals :
    dealShares[d] > 0 =>
      /\ dealTarget[d] # 0 =>
           price_per_share(d) = C12_HalfUp(dealTarget[d], dealShares[d])
      /\ ValuationsOf(d) # {} =>
           calculate_current_share_value(d) = C12_HalfUp(C7_Nav(d), dealShares[d])

\* the Transactions of deal d whose date is a later day than day
C13_LaterDayTx(d, day) ==
  {k \in 1..Len(transactions) :
     /\ transactions[k].deal = d
     /\ transactions[k].transaction_date \div TicksPerDay > day}

\* C13: only the Transactions of a later day than the latest Valuation's
\* valuation_date count: the share value is what the valuation and those
\* Transactions alone give
C13_StrictlyAfter ==
  \A d \in Deals :
    (dealShares[d] > 0 /\ ValuationsOf(d) # {}) =>
      LET day == GreatestDate(d)
          K == C13_LaterDayTx(d, day)
      IN calculate_current_share_value(d) =
           DivideAndQuantize(LatestValuation(d).total_valuation
                               + SumAmounts(K, "INCOME") - SumAmounts(K, "EXPENSE"),
                             dealShares[d])

\* C14: a step that records a DISTRIBUTION Transaction, whatever its amount
\* and date, leaves the share value of every Deal as it was
C14_DistributionIgnored ==
  [][(/\ Len(transactions') = Len(transactions) + 1
      /\ transactions'[Len(transactions')].transaction_type = "DISTRIBUTION")
       => \A d \in Deals :
            calculate_current_share_value(d)' = calculate_current_share_value(d)]_vars

C14_Witness ==
  \E d \in Deals :
    /\ dealShares[d] > 0 /\ ValuationsOf(d) # {}
    /\ Len(transactions) > 0
    /\ LET k == Len(transactions)
       IN /\ transactions[k].transaction_type = "DISTRIBUTION"
          /\ k \in CountedTx(d, GreatestDate(d))
          /\ transactions[k].amount >= dealShares[d]

C15_UniqueDate ==
  \A v, w \in valuations :
    (v.deal = w.deal /\ v.valuation_date = w.valuation_date) => v = w

C15_UsesGreatestDate ==
  \A d \in Deals :
    (dealShares[d] > 0 /\ ValuationsOf(d) # {}) =>
      calculate_current_share_value(d) =
        DivideAndQuantize(C7_Nav(d), dealShares[d])

\* C15: a Deal has no two Valuations of one valuation_date; the share value
\* is computed from the Valuation of the greatest valuation_date, in whatever
\* order the Valuations were inserted; and inserting a Valuation older than
\* the latest one leaves the share value as it was
C15_LatestValuation ==
  /\ [](C15_UniqueDate /\ C15_UsesGreatestDate)
  /\ [][\A d \in Deals :
         (/\ ValuationsOf(d) # {}
          /\ \E v \in valuations' \ valuations :
               v.deal = d /\ v.valuation_date < GreatestDate(d))
           => calculate_current_share_value(d)' = calculate_current_share_value(d)]_vars

C15_Witness ==
  \E d \in Deals : \E v, w \in ValuationsOf(d) :
    /\ dealShares[d] > 0
    /\ v.id < w.id /\ w.valuation_date < v.valuation_date
    /\ DivideAndQuantize(w.total_valuation, dealShares[d])
         # DivideAndQuantize(v.total_valuation, dealShares[d])
    /\ \E k \in 1..Len(transactions) :
         /\ transactions[k].deal = d
         /\ transactions[k].transaction_type = "INCOME"
         /\ transactions[k].transaction_date > Midnight(w.valuation_date)
         /\ transactions[k].transaction_date <= Midnight(v.valuation_date)

\* total_cost_basis of the pair's Holding, 0 when there is none
C16_Basis(H, inv, d) ==
  LET R == {h \in H : h.investor = inv /\ h.deal = d}
  IN IF R = {} THEN 0 ELSE (CHOOSE h \in R : TRUE).total_cost_basis

\* C16: a subscription computes its cost as shares * the Deal's
\* price_per_share at the call, whatever the Deal's Valuations and
\* Transactions are, and the request adds exactly that to the cost basis the
\* Holding already has
C16_CostBasisAtOfferingPrice ==
  [][\A r \in Reqs :
       /\ (subPc[r] = "idle" /\ subPc'[r] # "idle") =>
            subReq'[r].new_cost_basis =
              subReq'[r].new_shares * price_per_share(subReq'[r].deal)
       /\ (subPc[r] # "idle" /\ subPc'[r] = "idle") =>
            C16_Basis(holdings', subReq[r].investor, subReq[r].deal) =
              C16_Basis(holdings, subReq[r].investor, subReq[r].deal)
                + subReq[r].new_shares * subReq[r].price]_vars

C16_Witness ==
  /\ SubQuiet
  /\ \E inv \in Investors, d \in Deals :
       /\ subShares[<<inv, d>>] = 3
       /\ ValuationsOf(d) # {}
       /\ CountedTx(d, GreatestDate(d)) # {}
       /\ price_per_share(d) > 0
       /\ calculate_current_share_value(d) # price_per_share(d)
       /\ C16_Basis(holdings, inv, d) = 3 * price_per_share(d)

C17_QuantitiesPositive ==
  /\ \A v \in CartKeys(cart) : cart[v].quantity >= 1
  /\ \A i \in saleItems : i.quantity >= 1

C18_AddSnapshotsCurrentPrice ==
  [][\A v \in Variants :
       cart'[v].quantity > cart[v].quantity =>
         /\ cart'[v].price = FloatOf(variantPrice[v])
         /\ cart'[v].snap = variantPrice[v]]_vars

\* C19: a remove_from_cart request for a variant takes that variant's whole
\* entry out of the cart, whatever its quantity, and leaves the other entries;
\* with no such entry the cart stays as it is; either way the request ends
\* without an error and the Sale, SaleItem and Transaction tables are untouched
C19_RemoveDeletesEntry ==
  [][\A v \in Variants :
       (removed'.variant = v /\ <<removed, cart>>' # <<removed, cart>>) =>
         /\ removed'.quantity = cart[v].quantity
         /\ cart' = [cart EXCEPT ![v] = NoEntry]
         /\ DbUnchanged
         /\ Quiet /\ pc' = pc]_vars

C19_Witness ==
  /\ removed.variant \in Variants
  /\ removed.quantity = MaxQty
  /\ CartKeys(cart) = Variants \ {removed.variant}

\* the request's Sale is in the Sale table with its Transaction
C20_Persisted(r) ==
  /\ reqSale[r] \in sales
  /\ MatchingTxOfSale(reqSale[r]) # {}

\* the step is a remove_from_cart request
C20_IsRemove == removed' # removed /\ removed' # NoItem

\* C20: entries leave the cart, other than by a remove request, only in the
\* step of a checkout whose Sale and Transaction are persisted, and that step
\* leaves the cart empty; a checkout that ends refused or failed leaves the
\* cart it read; and a checkout that reads an empty cart, such as a second
\* one after the cart was cleared, creates nothing
C20_ClearedOnlyBySuccess ==
  [][/\ ((\E v \in Variants : cart[v] # NoEntry /\ cart'[v] = NoEntry)
          /\ ~C20_IsRemove)
         => \E r \in Reqs : C20_Persisted(r) /\ pc'[r] = "idle"
     /\ \A r \in Reqs :
          /\ (pc[r] # "idle" /\ pc'[r] = "idle" /\ C20_Persisted(r))
               => cart' = EmptyCart
          /\ (pc[r] # "idle" /\ pc'[r] = "idle" /\ ~C20_Persisted(r))
               => (cart' = cart /\ cart' = reqCart[r])
          /\ (pc[r] = "checkout" /\ CartKeys(reqCart[r]) = {})
               => (pc'[r] = "rejected" /\ DbUnchanged)]_vars

C20_Witness ==
  /\ Quiet
  /\ cartGen > 0
  /\ aborted # {}
  /\ CartKeys(cart) # {}

\* shares_held of the pair's Holding in table H, 0 when there is none
C21_Held(H, inv, d) ==
  LET R == {h \in H : h.investor = inv /\ h.deal = d}
  IN IF R = {} THEN 0 ELSE (CHOOSE h \in R : TRUE).shares_held

RECURSIVE C21_Sold(_, _, _)
C21_Sold(H, I, d) ==
  IF I = {} THEN 0
  ELSE LET inv == CHOOSE x \in I : TRUE
       IN C21_Held(H, inv, d) + C21_Sold(H, I \ {inv}, d)

\* C21: in every state shares_available is total_shares_offered minus the
\* shares_held of the deal's Holdings, below zero when more is held than
\* offered; and every subscription request goes through with all its shares,
\* whatever shares_available was
C21_SharesAvailable ==
  /\ [](\A d \in Deals :
          shares_available(d) = dealShares[d] - C21_Sold(holdings, Investors, d))
  /\ [][\A r \in Reqs :
         (subPc[r] # "idle" /\ subPc'[r] = "idle") =>
           C21_Sold(holdings', Investors, subReq[r].deal) =
             C21_Sold(holdings, Investors, subReq[r].deal) + subReq[r].new_shares]_vars

C21_Witness ==
  /\ SubQuiet
  /\ \E d \in Deals :
       /\ dealShares[d] > 0
       /\ shares_available(d) < 0
       /\ subShares[<<1, d>>] > 0 /\ subShares[<<2, d>>] > dealShares[d]

\* C22: a step that records an EXPENSE through the transaction form (a
\* Transaction dated at midnight) stores a positive amount and raises the
\* share value of no Deal
C22_ExpenseNeverRaisesNav ==
  [][(/\ Len(transactions') = Len(transactions) + 1
      /\ transactions'[Len(transactions')].transaction_type = "EXPENSE"
      /\ \E day \in Days :
           transactions'[Len(transactions')].transaction_date = Midnight(day))
       => /\ transactions'[Len(transactions')].amount > 0
          /\ \A d \in Deals :
               calculate_current_share_value(d)' <= calculate_current_share_value(d)]_vars

\* C23: a SalesEntryForm passes validation exactly when its amount is
\* strictly positive: zero and every negative amount get a ValidationError
C23_NonPositiveRejected ==
  salesForm.bound =>
    ("error" \in DOMAIN salesForm.cleaned <=> salesForm.amount <= 0)

\* the profile is a cashier or manager of another asset, or of none
C24_Mismatch(a) ==
  /\ a.tested
  /\ a.profile.role \in {"CASHIER", "MANAGER"}
  /\ a.profile.assigned_asset # DealAsset[a.deal]

\* C24: while the user at a deal's POS is a CASHIER or MANAGER not assigned
\* to the deal's asset, no step changes the session cart or the Sale,
\* SaleItem and Transaction tables or starts a checkout; an OWNER is let in
\* at every deal
C24_PosPermission ==
  /\ [](posAccess.tested /\ posAccess.profile.role = "OWNER"
          => posAccess.granted)
  /\ [][(C24_Mismatch(posAccess) /\ posAccess' = posAccess)
         => (cart' = cart /\ DbUnchanged /\ pc' = pc)]_vars

C24_Witness ==
  /\ C24_Mismatch(posAccess)
  /\ posAccess.profile.assigned_asset # None
  /\ CartKeys(cart) # {}
  /\ sales # {}

\* the Transaction rows with the insertion order forgotten: the distinct
\* rows, and how many copies of each the table holds
C25_Rows == {transactions[k] : k \in DOMAIN transactions}

C25_Copies(t) == Cardinality({k \in DOMAIN transactions : transactions[k] = t})

RECURSIVE C25_SumRows(_, _, _)
C25_SumRows(S, d, since) ==
  IF S = {} THEN 0
  ELSE LET t == CHOOSE x \in S : TRUE
           signed == IF t.transaction_type = "INCOME" THEN t.amount
                     ELSE IF t.transaction_type = "EXPENSE" THEN 0 - t.amount
                     ELSE 0
       IN (IF t.deal = d /\ t.transaction_date > since
           THEN C25_Copies(t) * signed ELSE 0)
          + C25_SumRows(S \ {t}, d, since)

\* C25: the share value is a function of which Transactions the deal has
\* and of their dates, computed here from the rows without their insertion
\* order: two tables holding the same rows give the same value
C25_OrderIndependent ==
  \A d \in Deals :
    (dealShares[d] > 0 /\ ValuationsOf(d) # {}) =>
      calculate_current_share_value(d) =
        DivideAndQuantize(
          LatestValuation(d).total_valuation
            + C25_SumRows(C25_Rows, d, Midnight(GreatestDate(d))),
          dealShares[d])

C25_Witness ==
  \E d \in Deals :
    /\ dealShares[d] > 0 /\ ValuationsOf(d) # {}
    /\ Len(transactions) = 2
    /\ CountedTx(d, GreatestDate(d)) = {1, 2}
    /\ transactions[1].transaction_date > transactions[2].transaction_date
    /\ CashFlowTerm(transactions[1]) > 0
    /\ CashFlowTerm(transactions[2]) < 0

\* C26: in every state every SaleItem references a Variant that exists, and
\* that Variant's Item and the Item's Category exist: no delete of a
\* Variant, an Item or a Category takes a referenced Variant away
C26_ReferencedVariantStays ==
  \A x \in saleItems :
    /\ variantPrice[x.variant] # Gone
    /\ VariantItem[x.variant] \in items
    /\ ItemCategory[VariantItem[x.variant]] \in categories

C26_Witness ==
  \E x \in saleItems : \E w \in Variants :
    /\ variantPrice[x.variant] # Gone
    /\ variantPrice[w] = Gone
    /\ VariantItem[w] \notin items
    /\ ItemCategory[VariantItem[w]] \notin categories
    /\ sales # {} /\ Quiet

\* C27: once the delete of a Deal has been asked for, the Deal is gone and
\* none of its Valuations, Transactions and Holdings is left
C27_DealDeleteCascades ==
  dealDelete.asked =>
    LET d == dealDelete.deal
    IN /\ d \notin deals
       /\ ValuationsOf(d) = {}
       /\ HoldingsOf(d) = {}
       /\ \A k \in DOMAIN transactions : transactions[k].deal # d

\* C28: whenever no subscription for a pair is under way, the pair's Holding
\* has the shares of every subscription that went through, and their cost
\* when all were made at the price_per_share that stands
C28_NoLostSubscription ==
  \A inv \in Investors, d \in Deals :
    (\A r \in Reqs : subPc[r] = "idle" \/ subReq[r].investor # inv
                                     \/ subReq[r].deal # d) =>
      \A h \in HoldingRow(inv, d) :
        /\ h.shares_held = subShares[<<inv, d>>]
        /\ subAt[<<inv, d>>] = {price_per_share(d)} =>
             h.total_cost_basis = subShares[<<inv, d>>] * price_per_share(d)

\* C29: the Variant of every SaleItem is of an Item whose Category belongs
\* to the asset of the deal the SaleItem's Sale was made for
C29_SaleItemsOfDealAsset ==
  \A x \in saleItems : \A y \in sales :
    y.id = x.sale =>
      CategoryAsset[ItemCategory[VariantItem[x.variant]]] = DealAsset[y.deal]

\* the request is a manager's, of an asset, and names a cashier of that asset
C30_MayToggle(q) ==
  /\ q.asked
  /\ UserProfile[q.requester].role = "MANAGER"
  /\ UserProfile[q.requester].assigned_asset \in Assets
  /\ q.user_pk \in Users
  /\ UserProfile[q.user_pk].role = "CASHIER"
  /\ UserProfile[q.user_pk].assigned_asset =
       UserProfile[q.requester].assigned_asset

\* C30: a manage_users_view request flips is_active of the user it names,
\* and of nobody else, when it is posted by a MANAGER with an asset and names
\* a CASHIER of that asset; every other request leaves is_active of every
\* user as it was
C30_ManagerTogglesOwnCashiers ==
  [][IF C30_MayToggle(toggleReq')
     THEN userActive' = [userActive EXCEPT ![toggleReq'.user_pk] = ~@]
     ELSE userActive' = userActive]_vars

C30_Witness ==
  /\ toggleReq.asked
  /\ UserProfile[toggleReq.requester].assigned_asset = 1
  /\ UserProfile[toggleReq.requester].role = "MANAGER"
  /\ toggleReq.user_pk = 6
  /\ ~userActive[5] /\ userActive[6]

====
